---- MODULE Spec2Model ----
(***************************************************************************)
(* Query Pulse: the query-state engine of src/lib/QueryProvider.tsx (the   *)
(* cache-aware QueryProvider, lines 128-287), the QueryState record of     *)
(* src/lib/types.ts and the InMemoryCache plugin.                          *)
(*                                                                         *)
(* React state is modelled as React keeps it: setQueryStore(updater) only  *)
(* queues the updater; a render runs the queued updaters in order against  *)
(* the committed queryStore and commits the result; the passive effect     *)
(* that copies queryStore into queryStoreRef runs after the commit, at the *)
(* latest before the next render.  Record objects live in a heap so that   *)
(* the in-place write `newStore[key].isFetching = true` is seen through    *)
(* every store object that shares the record.                              *)
(*                                                                         *)
(* Every updater touches the entry of one key only, so updaters of         *)
(* different keys commute and the queue is kept as its net effect:         *)
(* nextStore is the store object the queued updaters produce, built as     *)
(* they are queued.  The one effect of an updater that outlives it, the    *)
(* in-place write into a record the committed store holds, happens when    *)
(* React runs the updater; lateWrites holds the keys whose committed       *)
(* record still awaits that write.                                         *)
(***************************************************************************)
EXTENDS Integers, Sequences, FiniteSets, TLC

\* ---- bounds of the model ----
NKeys == 2
NData == 2
NErrors == 1
NProducers == 2
MaxCalls == 2

Keys == 1..NKeys
Data == 1..NData
Errors == 1..NErrors
Producers == 1..NProducers

\* JavaScript `undefined`: an absent key of a store object, an absent field
\* of a record, an absent cache entry.
Undef == 0

\* Addresses of QueryState objects.  Addresses are not observable by the
\* program, so objects are kept at canonical addresses: the record the
\* committed store holds for key k at k, the record queryStoreRef.current
\* holds for k at NKeys + k when it is a different object, and the record a
\* running updater creates for k at 2 * NKeys + k.
ObjIds == 1..(3 * NKeys)
CommittedAddr(k) == k
RefAddr(k) == NKeys + k
NewAddr(k) == 2 * NKeys + k

VARIABLES
    queryStore,     \* committed React state: key -> address of its record, or Undef
    queryStoreRef,  \* queryStoreRef.current: the store object the effect last copied
    heap,           \* address -> QueryState object
    nextStore,      \* the store object the queued updaters produce (queryStore if none is queued)
    lateWrites,     \* keys whose committed record a queued loading updater writes at the render
    hasCache,       \* the `cache` prop is a CachePlugin (TRUE) or undefined (FALSE)
    cache,          \* InMemoryCache.store: key -> value, or Undef
    inflight,       \* producer calls awaited by fetchData and not yet settled
    calls,          \* number of producer calls made so far
    lastOp          \* the operation that produced this state (history)

vars == <<queryStore, queryStoreRef, heap, nextStore, lateWrites, hasCache, cache, inflight, calls, lastOp>>

\* ---- QueryState (types.ts) ----
QueryStatus == {"idle", "loading", "success", "error"}

\* A heap cell that holds no object.
FreeRec == [status |-> "free", data |-> Undef, error |-> Undef, isFetching |-> FALSE, refetch |-> Undef]

\* A default state that claims a fetch is in progress.
defaultStateFetching == [status |-> "idle", data |-> Undef, error |-> Undef, isFetching |-> TRUE, refetch |-> Undef]

\* useQuery's defaultState, read for a key that has no record.
defaultState == [status |-> "idle", data |-> Undef, error |-> Undef, isFetching |-> FALSE, refetch |-> Undef]

EmptyStore == [k \in Keys |-> Undef]

Range(f) == {f[x] : x \in DOMAIN f}

\* ---- the four functional updaters passed to setQueryStore ----
\* Each takes prevStore `st` and the heap, and returns the new store object
\* and the heap after the updater ran.

\* A cached record published into a store that lost its other keys.
cachedUpdaterReplacesStore(st, hp, key, cachedData, fetchFn) ==
    LET o == NewAddr(key) IN
    [store |-> [k \in Keys |-> IF k = key THEN o ELSE Undef],
     heap  |-> [hp EXCEPT ![o] = [status |-> "success", data |-> cachedData, error |-> Undef,
                                   isFetching |-> FALSE, refetch |-> fetchFn]]]

\* lines 213-221: publish the cached value
cachedUpdater(st, hp, key, cachedData, fetchFn) ==
    LET o == NewAddr(key) IN
    [store |-> [st EXCEPT ![key] = o],
     heap  |-> [hp EXCEPT ![o] = [status |-> "success", data |-> cachedData, error |-> Undef,
                                   isFetching |-> FALSE, refetch |-> fetchFn]]]

\* A loading step that also resets the status of an existing record.
loadingUpdaterSetsStatus(st, hp, key, fetchFn) ==
    LET o == NewAddr(key) IN
    IF st[key] = Undef
    THEN [store |-> [st EXCEPT ![key] = o],
          heap  |-> [hp EXCEPT ![o] = [status |-> "loading", data |-> Undef, error |-> Undef,
                                        isFetching |-> TRUE, refetch |-> fetchFn]]]
    ELSE [store |-> st,
          heap  |-> [hp EXCEPT ![st[key]].isFetching = TRUE, ![st[key]].status = "loading"]]

\* lines 227-241: the loading step.  newStore is a shallow copy, so for an
\* existing key the write goes into the record object prevStore holds.
\* A loading step that creates the record without the fetching flag.
loadingUpdaterNotFetching(st, hp, key, fetchFn) ==
    LET o == NewAddr(key) IN
    IF st[key] = Undef
    THEN [store |-> [st EXCEPT ![key] = o],
          heap  |-> [hp EXCEPT ![o] = [status |-> "loading", data |-> Undef, error |-> Undef,
                                        isFetching |-> FALSE, refetch |-> fetchFn]]]
    ELSE [store |-> st,
          heap  |-> [hp EXCEPT ![st[key]].isFetching = TRUE]]

loadingUpdater(st, hp, key, fetchFn) ==
    LET o == NewAddr(key) IN
    IF st[key] = Undef
    THEN [store |-> [st EXCEPT ![key] = o],
          heap  |-> [hp EXCEPT ![o] = [status |-> "loading", data |-> Undef, error |-> Undef,
                                        isFetching |-> TRUE, refetch |-> fetchFn]]]
    ELSE [store |-> st,
          heap  |-> [hp EXCEPT ![st[key]].isFetching = TRUE]]

\* A success record that is left marked as fetching.
successUpdaterStillFetching(st, hp, key, data, fetchFn) ==
    LET o == NewAddr(key) IN
    [store |-> [st EXCEPT ![key] = o],
     heap  |-> [hp EXCEPT ![o] = [status |-> "success", data |-> data, error |-> Undef,
                                   isFetching |-> TRUE, refetch |-> fetchFn]]]

\* A success record written into the rendered store instead of prevStore.
successUpdaterFromSnapshot(st, hp, key, data, fetchFn) ==
    LET o == NewAddr(key) IN
    [store |-> [queryStore EXCEPT ![key] = o],
     heap  |-> [hp EXCEPT ![o] = [status |-> "success", data |-> data, error |-> Undef,
                                   isFetching |-> FALSE, refetch |-> fetchFn]]]

\* A success record that keeps the value the record already showed.
successUpdaterKeepsData(st, hp, key, data, fetchFn) ==
    LET o == NewAddr(key)
        shown == IF st[key] = Undef THEN Undef ELSE hp[st[key]].data
    IN
    [store |-> [st EXCEPT ![key] = o],
     heap  |-> [hp EXCEPT ![o] = [status |-> "success",
                                   data |-> IF shown # Undef THEN shown ELSE data,
                                   error |-> Undef, isFetching |-> FALSE, refetch |-> fetchFn]]]

\* lines 252-261: the success record
successUpdater(st, hp, key, data, fetchFn) ==
    LET o == NewAddr(key) IN
    [store |-> [st EXCEPT ![key] = o],
     heap  |-> [hp EXCEPT ![o] = [status |-> "success", data |-> data, error |-> Undef,
                                   isFetching |-> FALSE, refetch |-> fetchFn]]]

\* An error record that drops the failure value.
errorUpdaterNoValue(st, hp, key, error, fetchFn) ==
    LET o == NewAddr(key) IN
    [store |-> [st EXCEPT ![key] = o],
     heap  |-> [hp EXCEPT ![o] = [status |-> "error", data |-> Undef, error |-> Undef,
                                   isFetching |-> FALSE, refetch |-> fetchFn]]]

\* An error record written into a store that lost its other keys.
errorUpdaterDropsOthers(st, hp, key, error, fetchFn) ==
    LET o == NewAddr(key) IN
    [store |-> [k \in Keys |-> IF k = key THEN o ELSE Undef],
     heap  |-> [hp EXCEPT ![o] = [status |-> "error", data |-> Undef, error |-> error,
                                   isFetching |-> FALSE, refetch |-> fetchFn]]]

\* lines 264-273: the error record
errorUpdater(st, hp, key, error, fetchFn) ==
    LET o == NewAddr(key) IN
    [store |-> [st EXCEPT ![key] = o],
     heap  |-> [hp EXCEPT ![o] = [status |-> "error", data |-> Undef, error |-> error,
                                   isFetching |-> FALSE, refetch |-> fetchFn]]]

\* A queued setQueryStore call: which updater, and the values its closure holds.
Update(kind, key, val, fetchFn) == [kind |-> kind, key |-> key, val |-> val, fn |-> fetchFn]

ApplyUpdate(u, st, hp) ==
    CASE u.kind = "cached"  -> cachedUpdater(st, hp, u.key, u.val, u.fn)
      [] u.kind = "loading" -> loadingUpdater(st, hp, u.key, u.fn)
      [] u.kind = "success" -> successUpdater(st, hp, u.key, u.val, u.fn)
      [] u.kind = "error"   -> errorUpdater(st, hp, u.key, u.val, u.fn)

\* Deferred writes that land after the updaters queued behind them: each
\* goes into the record the queued updaters produce.
WriteLateAfterQueued(hp, late) ==
    [o \in ObjIds |->
        IF \E k \in late : nextStore[k] = o
        THEN [hp[o] EXCEPT !.isFetching = TRUE]
        ELSE hp[o]]

\* The deferred writes `late` land: the loading updater of each key in
\* `late` runs on the committed store.
WriteLate(hp, late) ==
    [o \in ObjIds |->
        IF \E k \in late : queryStore[k] = o
        THEN LET k == CHOOSE j \in late : queryStore[j] = o
             IN  loadingUpdater(queryStore, hp, k, Undef).heap[o]
        ELSE hp[o]]

\* setQueryStore(updater): the updater `u` is queued behind the updaters that
\* produce store `ns`.  A loading updater that will find the committed record
\* of its key writes into it when React runs it; any other updater creates a
\* new record, or writes into a record no committed store holds yet.
setQueryStore(u, ns, hp, late) ==
    IF u.kind = "loading" /\ ns[u.key] # Undef /\ ns[u.key] = queryStore[u.key]
    THEN [store |-> ns, heap |-> hp, late |-> late \cup {u.key}]
    ELSE LET r == ApplyUpdate(u, ns, hp)
         IN  [store |-> r.store, heap |-> r.heap, late |-> late]

\* Some updater is queued and not yet rendered.
UpdatesQueued == nextStore # queryStore \/ lateWrites # {}

\* Objects no store object refers to any more are collected, and the
\* remaining ones moved to their canonical addresses.  `st` is the committed
\* store object, `ref` the one queryStoreRef.current holds, `nxt` the one the
\* queued updaters produce.
Collect(hp, st, ref, nxt) ==
    [store |-> [k \in Keys |-> IF st[k] = Undef THEN Undef ELSE CommittedAddr(k)],
     ref   |-> [k \in Keys |-> IF ref[k] = Undef THEN Undef
                               ELSE IF ref[k] = st[k] THEN CommittedAddr(k) ELSE RefAddr(k)],
     heap  |-> [o \in ObjIds |->
                  IF o \in Keys
                  THEN (IF st[o] = Undef THEN FreeRec ELSE hp[st[o]])
                  ELSE IF o - NKeys \in Keys
                  THEN (IF ref[o - NKeys] = Undef \/ ref[o - NKeys] = st[o - NKeys]
                        THEN FreeRec ELSE hp[ref[o - NKeys]])
                  ELSE (IF nxt[o - 2 * NKeys] = o THEN hp[o] ELSE FreeRec)]]

\* ---- views ----
\* What a reader of store object `st` finds for `key` (useQuery lines 36-37).
RecOf(st, hp, key) == IF st[key] = Undef THEN defaultState ELSE hp[st[key]]

\* The store as rendered to observers.
Committed == [k \in Keys |-> RecOf(queryStore, heap, k)]

\* The store after every setQueryStore call made so far: the state the next
\* render commits.
Latest == [k \in Keys |-> RecOf(nextStore, WriteLate(heap, lateWrites), k)]

LatestHas(k) == nextStore[k] # Undef

\* What fetchData reads through queryStoreRef.current.
RefView == [k \in Keys |-> RecOf(queryStoreRef, heap, k)]

\* A producer call is identified by the key and the fetchFn of the fetchData
\* call that awaits it; inflight counts the calls of each kind not yet settled.
Calls == [key : Keys, fn : Producers]
\* The call an engine would make if it replayed the producer bound in the
\* key's record instead of the one passed.
CallOfBoundProducer(key, fetchFn) ==
    [key |-> key, fn |-> IF LatestHas(key) THEN Latest[key].refetch ELSE fetchFn]
Call(key, fetchFn) == [key |-> key, fn |-> fetchFn]

RECURSIVE Sum(_, _)
Sum(f, S) == IF S = {} THEN 0 ELSE LET x == CHOOSE y \in S : TRUE IN f[x] + Sum(f, S \ {x})

\* Number of producer calls outstanding for key k.
Outstanding(k) == Sum(inflight, {c \in Calls : c.key = k})

NoOp == [op |-> "init", key |-> Undef, val |-> Undef, dedup |-> FALSE, read |-> FALSE, hit |-> FALSE]

\* ---- InMemoryCache ----
\* A lookup that never finds the entry.
cacheGetMiss(c, key) == Undef

cacheGet(c, key) == c[key]

\* A set that keeps an entry the cache already holds.
cacheSetKeepsFirst(c, key, value) == IF c[key] # Undef THEN c ELSE [c EXCEPT ![key] = value]
\* A set that evicts the entries of the other keys.
cacheSetEvictsOthers(c, key, value) == [k \in Keys |-> IF k = key THEN value ELSE Undef]

cacheSet(c, key, value) == [c EXCEPT ![key] = value]

\* A delete that leaves the entry in place.
cacheDeleteKeepsEntry(c, key) == c

cacheDelete(c, key) == [c EXCEPT ![key] = Undef]

\* ---- inputs ----
\* Keys, producers, data and error values are opaque to the engine: it only
\* stores, copies and compares them for identity.  A behaviour is therefore
\* the same up to renaming them, and an operation takes either a value the
\* state already holds or the first one it does not hold.
Min(S) == CHOOSE x \in S : \A y \in S : x <= y
UsedOrNext(S, used) == (S \cap used) \cup (IF S \subseteq used THEN {} ELSE {Min(S \ used)})

UsedKeys ==
    {k \in Keys : \/ queryStore[k] # Undef \/ queryStoreRef[k] # Undef \/ nextStore[k] # Undef
                  \/ cache[k] # Undef \/ Outstanding(k) > 0 \/ lastOp.key = k}
UsedProducers == {c.fn : c \in {x \in Calls : inflight[x] > 0}} \cup {heap[o].refetch : o \in ObjIds}
UsedData ==
    {cache[k] : k \in Keys} \cup {heap[o].data : o \in ObjIds}
    \cup (IF lastOp.op \in {"resolve", "fetchData"} THEN {lastOp.val} ELSE {})
UsedErrors ==
    {heap[o].error : o \in ObjIds} \cup (IF lastOp.op = "reject" THEN {lastOp.val} ELSE {})

\* The caches a QueryProvider is mounted with: an empty one, or one that
\* already holds a value for a key.
InitialCaches ==
    {[k \in Keys |-> Undef], [k \in Keys |-> IF k = Min(Keys) THEN Min(Data) ELSE Undef]}

Init ==
    /\ queryStore = EmptyStore
    /\ queryStoreRef = EmptyStore
    /\ heap = [o \in ObjIds |-> FreeRec]
    /\ nextStore = EmptyStore
    /\ lateWrites = {}
    /\ hasCache \in BOOLEAN
    /\ cache \in IF hasCache THEN InitialCaches ELSE {[k \in Keys |-> Undef]}
    /\ inflight = [c \in Calls |-> 0]
    /\ calls = 0
    /\ lastOp = NoOp

\* lines 204-206: the in-flight check, made on queryStoreRef.current.
inFlightCheck(key) == queryStoreRef[key] # Undef /\ heap[queryStoreRef[key]].isFetching

\* lines 201-245: fetchData(key, fetchFn) up to and including the call of
\* fetchFn.  `eager`: React computes an updater queued on a component with
\* no update pending at once (eager state), so the loading updater's write
\* into the committed record happens during the call.
fetchData(key, fetchFn, eager) ==
    IF inFlightCheck(key)
    THEN \* lines 204-206
         /\ lastOp' = [NoOp EXCEPT !.op = "fetchData", !.key = key, !.dedup = TRUE]
         /\ UNCHANGED <<queryStore, queryStoreRef, heap, nextStore, lateWrites,
                        hasCache, cache, inflight, calls>>
    ELSE LET read       == hasCache /\ queryStoreRef[key] = Undef
             cachedData == IF read THEN cacheGet(cache, key) ELSE Undef
             hit        == cachedData # Undef
             \* lines 213-221
             r1 == IF hit
                   THEN setQueryStore(Update("cached", key, cachedData, fetchFn),
                                      nextStore, heap, lateWrites)
                   ELSE [store |-> nextStore, heap |-> heap, late |-> lateWrites]
             \* lines 227-241
             r2 == setQueryStore(Update("loading", key, Undef, fetchFn),
                                 r1.store, r1.heap, r1.late)
         IN  /\ calls < MaxCalls
             /\ eager => (~UpdatesQueued /\ ~hit /\ queryStore[key] # Undef)
             /\ nextStore' = r2.store
             /\ lateWrites' = r2.late
             /\ heap' = IF eager THEN WriteLate(r2.heap, {key}) ELSE r2.heap
             \* line 245
             /\ calls' = calls + 1
             /\ inflight' = [inflight EXCEPT ![Call(key, fetchFn)] = @ + 1]
             /\ lastOp' = [NoOp EXCEPT !.op = "fetchData", !.key = key,
                                       !.read = read, !.hit = hit, !.val = cachedData]
             /\ UNCHANGED <<queryStore, queryStoreRef, hasCache, cache>>

\* The refetch handle of the record an observer was rendered (lines 219, 234,
\* 258, 270): fetchData(key, fetchFn) with the fetchFn the record closed over.
refetch(key, eager) ==
    /\ queryStore[key] # Undef
    /\ fetchData(key, heap[queryStore[key]].refetch, eager)

\* A resolution that replays an invoke: the producer is called once more.
resolveReplaysInvoke(c, data) ==
    /\ inflight[c] > 0
    /\ inflight' = inflight
    /\ calls' = calls + 1
    /\ cache' = IF hasCache THEN [cache EXCEPT ![c.key] = data] ELSE cache
    /\ LET r == setQueryStore(Update("success", c.key, data, c.fn), nextStore, heap, lateWrites)
       IN  nextStore' = r.store /\ heap' = r.heap /\ lateWrites' = r.late
    /\ lastOp' = [NoOp EXCEPT !.op = "resolve", !.key = c.key, !.val = data]
    /\ UNCHANGED <<queryStore, queryStoreRef, hasCache>>

\* A resolution that writes to a cache whether or not one is configured.
resolveAlwaysCaches(c, data) ==
    /\ inflight[c] > 0
    /\ inflight' = [inflight EXCEPT ![c] = @ - 1]
    /\ cache' = [cache EXCEPT ![c.key] = data]
    /\ LET r == setQueryStore(Update("success", c.key, data, c.fn), nextStore, heap, lateWrites)
       IN  nextStore' = r.store /\ heap' = r.heap /\ lateWrites' = r.late
    /\ lastOp' = [NoOp EXCEPT !.op = "resolve", !.key = c.key, !.val = data]
    /\ UNCHANGED <<queryStore, queryStoreRef, hasCache, calls>>

\* lines 245-261: the awaited producer call `c` resolves with {data}.
resolve(c, data) ==
    /\ inflight[c] > 0
    /\ inflight' = [inflight EXCEPT ![c] = @ - 1]
    /\ cache' = IF hasCache THEN cacheSet(cache, c.key, data) ELSE cache
    /\ LET r == setQueryStore(Update("success", c.key, data, c.fn), nextStore, heap, lateWrites)
       IN  nextStore' = r.store /\ heap' = r.heap /\ lateWrites' = r.late
    /\ lastOp' = [NoOp EXCEPT !.op = "resolve", !.key = c.key, !.val = data]
    /\ UNCHANGED <<queryStore, queryStoreRef, hasCache, calls>>

\* lines 262-274: the awaited producer call `c` fails with `error`.
reject(c, error) ==
    /\ inflight[c] > 0
    /\ inflight' = [inflight EXCEPT ![c] = @ - 1]
    /\ LET r == setQueryStore(Update("error", c.key, error, c.fn), nextStore, heap, lateWrites)
       IN  nextStore' = r.store /\ heap' = r.heap /\ lateWrites' = r.late
    /\ lastOp' = [NoOp EXCEPT !.op = "reject", !.key = c.key, !.val = error]
    /\ UNCHANGED <<queryStore, queryStoreRef, hasCache, cache, calls>>

\* React renders QueryProvider: the effect still due from the previous
\* commit is flushed first (lines 186-188), then the queued updaters run
\* and the store they produce is committed.
Render ==
    /\ UpdatesQueued
    /\ LET c == Collect(WriteLate(heap, lateWrites), nextStore, queryStore, EmptyStore)
       IN  /\ queryStore' = c.store
           /\ queryStoreRef' = c.ref
           /\ heap' = c.heap
           /\ nextStore' = c.store
    /\ lateWrites' = {}
    /\ lastOp' = [NoOp EXCEPT !.op = "render"]
    /\ UNCHANGED <<hasCache, cache, inflight, calls>>

\* lines 186-188: the effect of the last commit runs.
SyncRef ==
    /\ queryStoreRef # queryStore
    /\ LET c == Collect(heap, queryStore, queryStore, nextStore)
       IN  /\ queryStoreRef' = c.ref
           /\ heap' = c.heap
    /\ lastOp' = [NoOp EXCEPT !.op = "effect"]
    /\ UNCHANGED <<queryStore, nextStore, lateWrites, hasCache, cache, inflight, calls>>

Next ==
    \/ \E k \in UsedOrNext(Keys, UsedKeys), f \in UsedOrNext(Producers, UsedProducers),
          eager \in BOOLEAN : fetchData(k, f, eager)
    \/ \E k \in Keys, eager \in BOOLEAN : refetch(k, eager)
    \/ \E c \in Calls, d \in UsedOrNext(Data, UsedData) : resolve(c, d)
    \/ \E c \in Calls, e \in UsedOrNext(Errors, UsedErrors) : reject(c, e)
    \/ Render
    \/ SyncRef

Spec == Init /\ [][Next]_vars

TypeOK ==
    /\ queryStore \in [Keys -> ObjIds \cup {Undef}]
    /\ queryStoreRef \in [Keys -> ObjIds \cup {Undef}]
    /\ nextStore \in [Keys -> ObjIds \cup {Undef}]
    /\ lateWrites \subseteq Keys
    /\ calls \in 0..MaxCalls
    /\ \A k \in Keys : Outstanding(k) \in 0..MaxCalls
    /\ \A k \in Keys : Committed[k].status \in QueryStatus /\ RefView[k].status \in QueryStatus
    /\ \A k \in Keys : Latest[k].status \in QueryStatus

\* ---- a CachePlugin that throws ----
\* The `cache` prop is any implementation of CachePlugin.  A plugin whose
\* get or set may throw is followed through fetchData here; when it does not
\* throw it behaves as InMemoryCache does.

\* lines 209-210: cache.get(key) throws.  The call is outside the try block:
\* the exception leaves fetchData (the promise it returned is rejected)
\* before any setQueryStore call and before fetchFn is called.
fetchDataGetThrows(key) ==
    /\ ~inFlightCheck(key)
    /\ hasCache /\ queryStoreRef[key] = Undef
    /\ lastOp' = [NoOp EXCEPT !.op = "getThrew", !.key = key]
    /\ UNCHANGED <<queryStore, queryStoreRef, heap, nextStore, lateWrites,
                   hasCache, cache, inflight, calls>>

\* lines 245-249 and 262-274: the awaited producer call `c` resolves and
\* cache.set(key, data) throws `error`.  The call is inside the try block:
\* the catch block runs with the plugin's exception, and the resolved data
\* is dropped.
resolveSetThrows(c, error) ==
    /\ hasCache
    /\ inflight[c] > 0
    /\ inflight' = [inflight EXCEPT ![c] = @ - 1]
    /\ LET r == setQueryStore(Update("error", c.key, error, c.fn), nextStore, heap, lateWrites)
       IN  nextStore' = r.store /\ heap' = r.heap /\ lateWrites' = r.late
    /\ lastOp' = [NoOp EXCEPT !.op = "setThrew", !.key = c.key, !.val = error]
    /\ UNCHANGED <<queryStore, queryStoreRef, hasCache, cache, calls>>

InitFaulty == Init /\ hasCache

NextFaulty ==
    \/ Next
    \/ \E k \in UsedOrNext(Keys, UsedKeys) : fetchDataGetThrows(k)
    \/ \E c \in Calls, e \in UsedOrNext(Errors, UsedErrors) : resolveSetThrows(c, e)

SpecFaulty == InitFaulty /\ [][NextFaulty]_vars

\* ---- useQuery: the binding adapter ----
\* One component is mounted with useQuery(BoundKey, BoundFn), inside a
\* QueryProvider or outside any.  lastOp tells where React is: after the
\* mount ("init") and after every render the passive effects of that commit
\* are due, and React runs a child's effects before its parent's, so the
\* effect of useQuery runs before the provider's effect refreshes
\* queryStoreRef.current.
BoundKey == Min(Keys)
BoundFn == Min(Producers)

\* QueryProvider.tsx line 154-169: createContext(undefined), and line 281:
\* the provider's value {queryStore, fetchData} (an object, written 1).
\* What useContext(QueryContext) returns.
useContext(inside) == IF inside THEN 1 ELSE Undef

EffectsDue == lastOp.op \in {"init", "render"}

\* A condition that also fetches again for a record in error.
useQueryConditionRetriesError(key) ==
    \/ queryStore[key] = Undef
    \/ heap[queryStore[key]].status \in {"idle", "error"}
    \/ (heap[queryStore[key]].status = "loading" /\ ~heap[queryStore[key]].isFetching)

\* useQuery lines 42-46: the condition of the effect, on currentQuery.
useQueryCondition(key) ==
    \/ queryStore[key] = Undef
    \/ heap[queryStore[key]].status = "idle"
    \/ (heap[queryStore[key]].status = "loading" /\ ~heap[queryStore[key]].isFetching)

\* useQuery lines 39-50: the effect.
useQueryEffect(key, fetchFn) ==
    IF useQueryCondition(key)
    THEN fetchData(key, fetchFn, FALSE)
    ELSE /\ lastOp' = [NoOp EXCEPT !.op = "useQuery", !.key = key]
         /\ UNCHANGED <<queryStore, queryStoreRef, heap, nextStore, lateWrites,
                        hasCache, cache, inflight, calls>>

\* A hook that skips the context check and reads the store of the default
\* context.
useQueryUnchecked(inside, key, fetchFn) ==
    /\ EffectsDue
    /\ lastOp.op = "render" => inside
    /\ useQueryEffect(key, fetchFn)

\* useQuery lines 17-53: the component renders with the hook and its effect
\* runs.  Without a context value the hook throws during the render (lines
\* 22-25): nothing is read, nothing runs.
useQuery(inside, key, fetchFn) ==
    /\ EffectsDue
    /\ lastOp.op = "render" => inside
    /\ IF useContext(inside) = Undef
       THEN /\ lastOp' = [NoOp EXCEPT !.op = "usageError", !.key = key]
            /\ UNCHANGED <<queryStore, queryStoreRef, heap, nextStore, lateWrites,
                           hasCache, cache, inflight, calls>>
       ELSE useQueryEffect(key, fetchFn)

\* main.tsx lines 6-12: the root is wrapped in <StrictMode>, which in a
\* development build runs every effect of a newly mounted component a
\* second time right after the first.  The state is the one the mount
\* effect left: a call was made and nothing is rendered yet.
strictModeEffect(key, fetchFn) ==
    /\ lastOp.op = "fetchData" /\ queryStore = EmptyStore /\ calls = 1
    /\ useQueryEffect(key, fetchFn)

NextBinding ==
    \/ \E inside \in BOOLEAN : useQuery(inside, BoundKey, BoundFn)
    \/ strictModeEffect(BoundKey, BoundFn)
    \/ \E eager \in BOOLEAN : ~EffectsDue /\ refetch(BoundKey, eager)
    \/ \E c \in Calls, d \in UsedOrNext(Data, UsedData) : ~EffectsDue /\ resolve(c, d)
    \/ \E c \in Calls, e \in UsedOrNext(Errors, UsedErrors) : ~EffectsDue /\ reject(c, e)
    \/ ~EffectsDue /\ Render
    \/ ~EffectsDue /\ SyncRef

SpecBinding == Init /\ [][NextBinding]_vars

\* ---- QueryProvider without a cache (QueryProvider.tsx lines 1-126) ----
\* The first version of the provider in the file has no `cache` prop: its
\* fetchData has no cache-read step and its try block no cache.set.  Its
\* state, its ref and its effect are the same (lines 44-52).

\* lines 64-101: the in-flight check (line 67), the loading update (lines
\* 72-86) and the call of fetchFn (line 90).
fetchDataNoCache(key, fetchFn, eager) ==
    IF inFlightCheck(key)
    THEN /\ lastOp' = [NoOp EXCEPT !.op = "fetchData", !.key = key, !.dedup = TRUE]
         /\ UNCHANGED <<queryStore, queryStoreRef, heap, nextStore, lateWrites,
                        hasCache, cache, inflight, calls>>
    ELSE LET r2 == setQueryStore(Update("loading", key, Undef, fetchFn),
                                 nextStore, heap, lateWrites)
         IN  /\ calls < MaxCalls
             /\ eager => (~UpdatesQueued /\ queryStore[key] # Undef)
             /\ nextStore' = r2.store
             /\ lateWrites' = r2.late
             /\ heap' = IF eager THEN WriteLate(r2.heap, {key}) ELSE r2.heap
             /\ calls' = calls + 1
             /\ inflight' = [inflight EXCEPT ![Call(key, fetchFn)] = @ + 1]
             /\ lastOp' = [NoOp EXCEPT !.op = "fetchData", !.key = key]
             /\ UNCHANGED <<queryStore, queryStoreRef, hasCache, cache>>

\* lines 79, 98, 110: the refetch closure of a record.
refetchNoCache(key, eager) ==
    /\ queryStore[key] # Undef
    /\ fetchDataNoCache(key, heap[queryStore[key]].refetch, eager)

\* lines 90-101: the awaited producer call `c` resolves with {data}.
resolveNoCache(c, data) ==
    /\ inflight[c] > 0
    /\ inflight' = [inflight EXCEPT ![c] = @ - 1]
    /\ LET r == setQueryStore(Update("success", c.key, data, c.fn), nextStore, heap, lateWrites)
       IN  nextStore' = r.store /\ heap' = r.heap /\ lateWrites' = r.late
    /\ lastOp' = [NoOp EXCEPT !.op = "resolve", !.key = c.key, !.val = data]
    /\ UNCHANGED <<queryStore, queryStoreRef, hasCache, cache, calls>>

\* lines 102-114: the awaited producer call `c` fails with `error`.
rejectNoCache(c, error) ==
    /\ inflight[c] > 0
    /\ inflight' = [inflight EXCEPT ![c] = @ - 1]
    /\ LET r == setQueryStore(Update("error", c.key, error, c.fn), nextStore, heap, lateWrites)
       IN  nextStore' = r.store /\ heap' = r.heap /\ lateWrites' = r.late
    /\ lastOp' = [NoOp EXCEPT !.op = "reject", !.key = c.key, !.val = error]
    /\ UNCHANGED <<queryStore, queryStoreRef, hasCache, cache, calls>>

NextNoCache ==
    \/ \E k \in UsedOrNext(Keys, UsedKeys), f \in UsedOrNext(Producers, UsedProducers),
          eager \in BOOLEAN : fetchDataNoCache(k, f, eager)
    \/ \E k \in Keys, eager \in BOOLEAN : refetchNoCache(k, eager)
    \/ \E c \in Calls, d \in UsedOrNext(Data, UsedData) : resolveNoCache(c, d)
    \/ \E c \in Calls, e \in UsedOrNext(Errors, UsedErrors) : rejectNoCache(c, e)
    \/ Render
    \/ SyncRef

\* The two providers side by side, neither given a cache: from every state
\* either of them reaches, each takes its steps.
InitNoCache == Init /\ ~hasCache
NextEither == Next \/ NextNoCache
SpecEither == InitNoCache /\ [][NextEither]_vars

\* ---- InMemoryCache used on its own ----
\* The plugin is a class of its own: an application constructs it and may
\* call its methods directly.  Values are of any type (`unknown`): the data
\* values and one value that is no query data.  The cache starts in any
\* content a Map over the keys can hold, the empty Map of line 10 among
\* them; no provider is involved, so the engine's variables stay as they
\* are.  lastOp.val is the value passed to set or returned by get, and
\* lastOp.hit tells whether the Map held the key before the call.
CacheValues == Data \cup {NData + 1}
EmptyCache == [k \in Keys |-> Undef]

\* lines 19-22
get(key) ==
    /\ lastOp' = [NoOp EXCEPT !.op = "get", !.key = key, !.val = cacheGet(cache, key),
                              !.hit = (cache[key] # Undef)]
    /\ UNCHANGED <<queryStore, queryStoreRef, heap, nextStore, lateWrites, hasCache,
                   cache, inflight, calls>>

\* lines 31-34
set(key, value) ==
    /\ cache' = cacheSet(cache, key, value)
    /\ lastOp' = [NoOp EXCEPT !.op = "set", !.key = key, !.val = value,
                              !.hit = (cache[key] # Undef)]
    /\ UNCHANGED <<queryStore, queryStoreRef, heap, nextStore, lateWrites, hasCache,
                   inflight, calls>>

\* lines 41-44
delete(key) ==
    /\ cache' = cacheDelete(cache, key)
    /\ lastOp' = [NoOp EXCEPT !.op = "delete", !.key = key, !.hit = (cache[key] # Undef)]
    /\ UNCHANGED <<queryStore, queryStoreRef, heap, nextStore, lateWrites, hasCache,
                   inflight, calls>>

InitCache ==
    /\ queryStore = EmptyStore
    /\ queryStoreRef = EmptyStore
    /\ heap = [o \in ObjIds |-> FreeRec]
    /\ nextStore = EmptyStore
    /\ lateWrites = {}
    /\ hasCache = TRUE
    /\ cache \in [Keys -> CacheValues \cup {Undef}]
    /\ inflight = [c \in Calls |-> 0]
    /\ calls = 0
    /\ lastOp = NoOp

NextCache ==
    \/ \E k \in Keys : get(k)
    \/ \E k \in Keys, v \in CacheValues : set(k, v)
    \/ \E k \in Keys : delete(k)

SpecCache == InitCache /\ [][NextCache]_vars

\* ---- steps named by the claims ----
\* The step is a fetchData(k, _) call (an invoke, or a refetch of k).
InvokeStep(k) == lastOp'.op = "fetchData" /\ lastOp'.key = k
\* The step is a fetchData(k, _) call that went past the in-flight check.
StartStep(k) == InvokeStep(k) /\ ~lastOp'.dedup
\* Everything the engine owns or touches, without the history variable.
engine == <<queryStore, queryStoreRef, heap, nextStore, lateWrites, hasCache, cache, inflight, calls>>

\* C1: for every key, in every reachable state, at most one producer call
\* is outstanding, however invoke/refetch calls, producer completions and
\* the refresh of queryStoreRef interleave.
C1_AtMostOneOutstanding == \A k \in Keys : Outstanding(k) <= 1

\* C2: an invoke (or refetch) for a key whose current record has
\* isFetching = true is a no-op: no producer call, no cache access, the
\* whole store unchanged.
C2_FetchingInvokeIsNoOp ==
    [][\A k \in Keys : (Latest[k].isFetching /\ InvokeStep(k)) => UNCHANGED engine]_vars

\* C3 as stated: for a key with no record, invoke makes the record loading
\* with isFetching = true, and a resolution with X makes it success with
\* data = X and isFetching = false.
C3_Original ==
    [][\A k \in Keys :
        /\ (~LatestHas(k) /\ InvokeStep(k)) =>
               (Latest'[k].status = "loading" /\ Latest'[k].isFetching)
        /\ (lastOp'.op = "resolve" /\ lastOp'.key = k) =>
               (Latest'[k].status = "success" /\ Latest'[k].data = lastOp'.val
                /\ ~Latest'[k].isFetching)]_vars

\* C3 amended: for a key with no record and no cached value (no cache
\* configured, or cache.get(k) undefined), invoke makes the record loading
\* with isFetching = true and no data; for any key, a resolution with X makes
\* the record success with data = X and isFetching = false.
C3_LoadingThenSuccess ==
    [][\A k \in Keys :
        /\ (~LatestHas(k) /\ InvokeStep(k) /\ ~(hasCache /\ cacheGet(cache, k) # Undef)) =>
               (Latest'[k].status = "loading" /\ Latest'[k].isFetching
                /\ Latest'[k].data = Undef /\ Outstanding(k)' = Outstanding(k) + 1)
        /\ (lastOp'.op = "resolve" /\ lastOp'.key = k) =>
               (Latest'[k].status = "success" /\ Latest'[k].data = lastOp'.val
                /\ ~Latest'[k].isFetching)]_vars

\* The only producer call made so far was for a key without record or cached
\* value, and has resolved: its record is the success record of its data.
C3_Witness ==
    /\ ~hasCache /\ calls = 1 /\ lastOp.op = "resolve"
    /\ Latest[lastOp.key].status = "success" /\ Latest[lastOp.key].data = lastOp.val

\* C4: a non-deduplicated invoke whose producer fails with E ends with the
\* record in status = error, error = E, isFetching = false.
C4_ErrorTerminal ==
    lastOp.op = "reject" =>
        /\ Latest[lastOp.key].status = "error"
        /\ Latest[lastOp.key].error = lastOp.val
        /\ Latest[lastOp.key].data = Undef
        /\ ~Latest[lastOp.key].isFetching

\* A producer call has failed and the record of its key holds the failure.
C4_Witness ==
    /\ lastOp.op = "reject" /\ lastOp.val \in Errors
    /\ Latest[lastOp.key].status = "error" /\ Latest[lastOp.key].error = lastOp.val

\* C5: for every key in every reachable state, the record's isFetching is
\* true if and only if a producer call for that key is outstanding.
C5_FetchingIffOutstanding == \A k \in Keys : Latest[k].isFetching <=> Outstanding(k) > 0
\* C6 as stated: every non-deduplicated invoke sets the key's record to
\* status = loading and isFetching = true, for an absent record and for an
\* existing one alike.
C6_Original ==
    [][\A k \in Keys : StartStep(k) =>
          (Latest'[k].status = "loading" /\ Latest'[k].isFetching)]_vars

\* C6 amended: every non-deduplicated invoke sets isFetching = true before
\* the producer result is applied; the status becomes loading only when the
\* key has no record and no cached value is published; a record that exists
\* keeps its status (success or error during a refetch), and when the
\* cache-read step publishes a cached value the status is success.
C6_LoadingStep ==
    [][\A k \in Keys : StartStep(k) =>
          /\ Latest'[k].isFetching
          /\ Outstanding(k)' = Outstanding(k) + 1
          /\ Latest'[k].status = IF lastOp'.hit THEN "success"
                                 ELSE IF LatestHas(k) THEN Latest[k].status
                                 ELSE "loading"]_vars

\* An invoke has started on a record in status error: it is fetching and
\* still in status error.
C6_Witness ==
    /\ lastOp.op = "fetchData" /\ ~lastOp.dedup /\ ~lastOp.hit
    /\ Latest[lastOp.key].status = "error" /\ Latest[lastOp.key].isFetching

\* C7: after a key has reached success or error with isFetching = false
\* (committed, nothing queued, no producer call outstanding), calling its
\* refetch calls the producer exactly once more.
C7_RefetchCallsProducer ==
    [][\A k \in Keys :
          (/\ ~UpdatesQueued
           /\ Committed[k].status \in {"success", "error"}
           /\ ~Committed[k].isFetching
           /\ Outstanding(k) = 0
           /\ InvokeStep(k))
          => (~lastOp'.dedup /\ Outstanding(k)' = 1)]_vars

\* C8: when a non-deduplicated invoke starts on a record in success or
\* error, the previous data (or error) stays on the record for as long as
\* isFetching is true, and is overwritten only when the invocation resolves.
C8_StaleRetained ==
    [][\A k \in Keys :
          ((Latest[k].status \in {"success", "error"} /\ StartStep(k))
           \/ (Latest[k].isFetching /\ Latest'[k].isFetching))
          => (Latest'[k].data = Latest[k].data /\ Latest'[k].error = Latest[k].error)]_vars

\* Every record some store object holds: the committed one, the one the
\* next render commits, and the one queryStoreRef.current holds.
Records(k) == {Latest[k], Committed[k], RefView[k]}

\* C9: in every reachable state and for every key, data is populated only
\* if status is success, error only if status is error, and never both.
C9_DataErrorExclusive ==
    \A k \in Keys : \A r \in Records(k) :
        /\ r.data # Undef => r.status = "success"
        /\ r.error # Undef => r.status = "error"
        /\ ~(r.data # Undef /\ r.error # Undef)

\* One key is being refetched with its data still on the record while
\* another key holds an error.
C9_Witness ==
    \E k1, k2 \in Keys :
        /\ Latest[k1].status = "success" /\ Latest[k1].data # Undef /\ Latest[k1].isFetching
        /\ Latest[k2].status = "error" /\ Latest[k2].error # Undef

C12_CacheWriteThrough ==
    (hasCache /\ lastOp.op = "resolve") => cacheGet(cache, lastOp.key) = lastOp.val

\* A resolution has replaced an earlier cached value of its key: the cache
\* holds the resolved value, which is not the first value the key had.
C12_Witness ==
    /\ hasCache /\ lastOp.op = "resolve" /\ lastOp.val # Min(Data)
    /\ cacheGet(cache, lastOp.key) = lastOp.val
    /\ \A k \in Keys \ {lastOp.key} : cache[k] = Undef /\ ~LatestHas(k)

\* C13: the engine changes the cache only by set(k, W) when an invocation
\* for k resolves with W.  A failed producer, a deduplicated invoke, the
\* cache-read step, the loading step, a render and the effect leave every
\* entry unchanged; no entry is ever deleted, and a resolution for k writes
\* no entry of another key.
C13_CacheWrittenOnlyOnSuccess ==
    [][/\ lastOp'.op # "resolve" => cache' = cache
       /\ lastOp'.op = "resolve" =>
              /\ \A k \in Keys \ {lastOp'.key} : cache'[k] = cache[k]
              /\ cache'[lastOp'.key] = (IF hasCache THEN lastOp'.val ELSE Undef)
       /\ \A k \in Keys : cache[k] # Undef => cache'[k] # Undef]_vars

\* A second producer call has failed while the cache holds an entry for its
\* key and an entry for another key.
C13_Witness ==
    /\ hasCache /\ calls = 2 /\ lastOp.op = "reject"
    /\ \A k \in Keys : cache[k] # Undef

\* C14: a failing producer never makes the invoke fail.  The failure is
\* caught: the call is no longer outstanding, the key's record is the error
\* record of the failure, and nothing else changes: no other key's record
\* (in the rendered store, in the store the updates produce, or behind
\* queryStoreRef), no cache entry, no other producer call.
C14_FailureContained ==
    [][\A k \in Keys : (lastOp'.op = "reject" /\ lastOp'.key = k) =>
          /\ Outstanding(k)' = Outstanding(k) - 1
          /\ Latest'[k].status = "error" /\ Latest'[k].error = lastOp'.val
          /\ \A j \in Keys \ {k} :
                 /\ Latest'[j] = Latest[j]
                 /\ Outstanding(j)' = Outstanding(j)
          /\ Committed' = Committed /\ RefView' = RefView
          /\ cache' = cache /\ calls' = calls]_vars

\* A producer call has failed while another key is being fetched: the
\* failed key is in error and the other key is still fetching.
C14_Witness ==
    /\ lastOp.op = "reject" /\ Latest[lastOp.key].status = "error"
    /\ \E j \in Keys \ {lastOp.key} : Latest[j].isFetching /\ Outstanding(j) = 1

\* C15: if the cache plugin throws during an invoke, in cache.get before the
\* loading step or in cache.set after the producer resolved, the failure
\* leaves the invoke sequence and is not turned into a query state: nothing
\* the engine holds changes when cache.get throws, and when cache.set throws
\* the key's record is not set to status = error with the plugin's exception.
C15_PluginFailureNotAState ==
    [][\A k \in Keys :
          /\ (lastOp'.op = "getThrew" /\ lastOp'.key = k) => UNCHANGED engine
          /\ (lastOp'.op = "setThrew" /\ lastOp'.key = k) =>
                 ~(Latest'[k].status = "error" /\ Latest'[k].error = lastOp'.val)]_vars

\* A producer call for k settles in this step.
SettleStep(k) == lastOp'.op \in {"resolve", "reject"} /\ lastOp'.key = k

\* C16: for every key the producer calls made equal the non-deduplicated
\* invokes.  Each invoke that passes the in-flight check calls the producer
\* exactly once; a deduplicated invoke calls none, and no other step (a
\* resolution, a failure, a render, the effect) makes a call, so a
\* deduplicated invoke is not replayed when the in-flight call settles.
C16_OneCallPerStartedInvoke ==
    [][IF \E k \in Keys : StartStep(k)
       THEN /\ calls' = calls + 1
            /\ \E c \in Calls : /\ c.key = lastOp'.key
                                 /\ inflight' = [inflight EXCEPT ![c] = @ + 1]
       ELSE /\ calls' = calls
            /\ \A c \in Calls : inflight'[c] <= inflight[c]]_vars

\* An invoke has been deduplicated: one call was made and is outstanding.
C16_Witness ==
    /\ lastOp.op = "fetchData" /\ lastOp.dedup
    /\ calls = 1 /\ Outstanding(lastOp.key) = 1

\* C17: for a single key, transitions are applied in the order issued.  A
\* producer call settles only on a key whose loading transition was issued
\* (the key has a record) and leaves the record terminal; the loading write
\* of an invocation never lands after its terminal write, so no step on the
\* key, render or effect leaves its record (queued or rendered) with
\* isFetching = true when no call is outstanding; and a render shows observers exactly the store the
\* updates produce in that order, however invocations of other keys
\* interleave.
C17_LoadingBeforeTerminal ==
    [][\A k \in Keys :
          /\ SettleStep(k) =>
                 /\ LatestHas(k)
                 /\ Latest'[k].status \in {"success", "error"} /\ ~Latest'[k].isFetching
          /\ (lastOp'.key \in {k, Undef} /\ Latest'[k].isFetching) =>
                 \E f \in Producers : inflight'[Call(k, f)] > 0
          /\ lastOp'.op = "render" => Committed'[k] = Latest[k]
          /\ (lastOp'.key \in {k, Undef} /\ ~UpdatesQueued' /\ Committed'[k].isFetching) =>
                 \E f \in Producers : inflight'[Call(k, f)] > 0]_vars

\* A key was invoked and has resolved before any render, while another key
\* is being fetched: its loading and its success update are queued together.
C17_Witness ==
    /\ lastOp.op = "resolve" /\ queryStore = EmptyStore
    /\ Latest[lastOp.key].status = "success" /\ ~Latest[lastOp.key].isFetching
    /\ \E j \in Keys \ {lastOp.key} : Latest[j].isFetching

\* C18: invocations for two distinct keys never interfere.  An invoke, a
\* loading write or a terminal write for key a leaves the record and the
\* outstanding calls of every other key b unchanged, so no update made to b
\* while a's producer was outstanding is lost when a settles; a settles
\* into its own terminal state; and an invoke of a key with no record is
\* never deduplicated because of another key.
C18_KeysIndependent ==
    [][lastOp'.op \in {"fetchData", "resolve", "reject"} =>
          /\ \A b \in Keys : b # lastOp'.key =>
                 /\ Latest'[b] = Latest[b]
                 /\ Committed'[b] = Committed[b]
                 /\ \A f \in Producers : inflight'[Call(b, f)] = inflight[Call(b, f)]
          /\ \A a \in Keys : lastOp'.key = a =>
                 /\ lastOp'.op = "resolve" =>
                        (Latest'[a].status = "success" /\ Latest'[a].data = lastOp'.val)
                 /\ lastOp'.op = "reject" =>
                        (Latest'[a].status = "error" /\ Latest'[a].error = lastOp'.val)
                 /\ (lastOp'.op = "fetchData" /\ ~LatestHas(a)) => ~lastOp'.dedup]_vars

\* The first key invoked has resolved while a second key, invoked after it
\* and not yet rendered, is still being fetched.
C18_Witness ==
    /\ ~hasCache /\ calls = 2 /\ queryStore = EmptyStore
    /\ lastOp.op = "resolve" /\ lastOp.key = Min(Keys)
    /\ Latest[lastOp.key].status = "success"
    /\ \E b \in Keys \ {lastOp.key} :
           Latest[b].status = "loading" /\ Latest[b].isFetching /\ Outstanding(b) = 1

\* C19: the set of keys present in the store only grows.  No step removes
\* a key from the rendered store, from the store the updates produce or
\* from the store behind queryStoreRef, and a key enters the store only by
\* an invoke for it that passed the in-flight check.
C19_KeysOnlyGrow ==
    [][\A k \in Keys :
          /\ LatestHas(k) => LatestHas(k)'
          /\ queryStore[k] # Undef => queryStore'[k] # Undef
          /\ queryStoreRef[k] # Undef => queryStoreRef'[k] # Undef
          /\ (~LatestHas(k) /\ LatestHas(k)') => StartStep(k)]_vars

\* Every key is in the rendered store and a producer call has just failed.
C19_Witness ==
    /\ lastOp.op = "reject"
    /\ \A k \in Keys : queryStore[k] # Undef /\ LatestHas(k)

\* C20: while a producer call for k is outstanding (it never settles), k
\* keeps isFetching = true and every invoke or refetch for k is
\* deduplicated, so no producer is called for k again; a key with no record
\* remains invocable.
C20_NeverSettlesBlocksKey ==
    [][\A k \in Keys :
          /\ Outstanding(k) > 0 =>
                 /\ Latest[k].isFetching
                 /\ InvokeStep(k) => (lastOp'.dedup /\ calls' = calls)
          /\ (InvokeStep(k) /\ ~LatestHas(k)) => ~lastOp'.dedup]_vars

\* C21: for any key that was never passed to invoke, reading its state
\* yields status = idle and isFetching = false with no data and no error,
\* whatever has happened to other keys.  (Every invoke of k leaves k with a
\* record, so the keys never invoked are those without one.)
C21_IdleDefault ==
    [][\A k \in Keys :
          /\ InvokeStep(k) => LatestHas(k)'
          /\ ~LatestHas(k)' =>
                 /\ Committed'[k].status = "idle" /\ ~Committed'[k].isFetching
                 /\ Committed'[k].data = Undef /\ Committed'[k].error = Undef
                 /\ Latest'[k] = Committed'[k]]_vars

\* One key has been fetched and rendered in success while another key was
\* never invoked and reads as idle.
C21_Witness ==
    \E k, j \in Keys :
        /\ Committed[k].status = "success"
        /\ ~LatestHas(j) /\ Outstanding(j) = 0 /\ Committed[j].status = "idle"

\* C22: a failure is never retried automatically.  Only an invoke or
\* refetch step calls a producer; the effect of the binding adapter makes no
\* call when the record it rendered is in success or error, and when it
\* does call, the rendered record is absent, idle, or loading with
\* isFetching = false.
C22_NoAutomaticRetry ==
    [][/\ calls' > calls => lastOp'.op = "fetchData"
       /\ (EffectsDue /\ Committed[BoundKey].status \in {"success", "error"}) =>
              (calls' = calls /\ inflight' = inflight)
       /\ (EffectsDue /\ calls' > calls) =>
              \/ queryStore[BoundKey] = Undef
              \/ Committed[BoundKey].status = "idle"
              \/ (Committed[BoundKey].status = "loading"
                  /\ ~Committed[BoundKey].isFetching)]_vars

\* The adapter's effect ran on a rendered error record and invoked nothing.
C22_Witness ==
    /\ lastOp.op = "useQuery" /\ lastOp.key = BoundKey
    /\ Committed[BoundKey].status = "error"
    /\ Outstanding(BoundKey) = 0

\* C23: the result of an earlier-started producer call never overwrites the
\* result of a later-started call for the same key.  Producers are named in
\* the order of their first use, so of two calls made for k with different
\* producers the one with Min(Producers) started first; when the record of k
\* holds the settled result of the other call, the settling of the first
\* one leaves status, data and error as they are.
C23_StaleResultSuppressed ==
    [][\A k \in Keys :
          (/\ SettleStep(k)
           /\ calls = 2
           /\ inflight[Call(k, Min(Producers))] = 1
           /\ \A f \in Producers \ {Min(Producers)} : inflight[Call(k, f)] = 0
           /\ Latest[k].status \in {"success", "error"}
           /\ ~Latest[k].isFetching
           /\ Latest[k].refetch # Min(Producers))
          => /\ Latest'[k].status = Latest[k].status
             /\ Latest'[k].data = Latest[k].data
             /\ Latest'[k].error = Latest[k].error]_vars

\* C24: a record or store snapshot that was published to observers is never
\* modified in place.  The rendered snapshot changes only by a render, which
\* publishes a new one; the snapshot before it, still held through
\* queryStoreRef.current, reads after the render as it was published, and
\* between renders it reads the same until the provider's effect replaces
\* it by the rendered one.
C24_PublishedNeverMutated ==
    [][/\ lastOp'.op # "render" => Committed' = Committed
       /\ lastOp'.op \in {"render", "effect"} => RefView' = Committed
       /\ lastOp'.op \notin {"render", "effect"} => RefView' = RefView]_vars

\* C25: calling the refetch handle of the record of k has the effect of
\* invoke(k, P) with P the producer last associated with k by an invoke.
\* refetch is fetchData(k, handle), so the two differ exactly when the call
\* is not deduplicated and the handle is not P.  Producers are named in the
\* order of their first use: an outstanding call for k with a producer other
\* than Min(Producers) is the second call made, so its producer is P.
\* Whenever the record of k is the rendered one and a refetch would pass the
\* in-flight check, its handle holds P.
C25_RefetchReplaysLastProducer ==
    \A k \in Keys : \A f \in Producers \ {Min(Producers)} :
        (/\ calls = 2
         /\ inflight[Call(k, f)] = 1
         /\ queryStore[k] # Undef /\ queryStore[k] = nextStore[k]
         /\ ~inFlightCheck(k))
        => heap[queryStore[k]].refetch = f

\* C27: useQuery outside a provider fails at once with a usage error,
\* before any state is read, any producer is called and any store or cache
\* change is made, and nothing runs after it; inside a provider the context
\* value is defined and the hook never fails this way.
C27_UsageErrorFailsFast ==
    [][/\ useQuery(FALSE, BoundKey, BoundFn) => lastOp'.op = "usageError"
       /\ useQuery(TRUE, BoundKey, BoundFn) => lastOp'.op # "usageError"
       /\ lastOp'.op = "usageError" =>
              /\ lastOp.op = "init"
              /\ engine' = engine
              /\ calls' = 0 /\ nextStore' = EmptyStore /\ lateWrites' = {}
              /\ \A c \in Calls : inflight'[c] = 0
       /\ lastOp.op # "usageError"]_vars

\* The hook was used outside a provider and threw: nothing was started.
C27_Witness ==
    /\ lastOp.op = "usageError" /\ lastOp.key = BoundKey
    /\ calls = 0 /\ queryStore = EmptyStore /\ nextStore = EmptyStore

\* C28: an invoke reads the cache only when a cache is configured and k has
\* no record yet: an invoke of a key that has a record never calls
\* cache.get and never publishes a cached value.
C28_CacheReadOnlyWithoutRecord ==
    [][\A k \in Keys :
          (InvokeStep(k) /\ (lastOp'.read \/ lastOp'.hit)) =>
              (hasCache /\ ~LatestHas(k))]_vars

\* C29: a non-deduplicated fetchData(k, P) calls the producer P passed to
\* it, whatever producer the record of k is bound to, and no other; when
\* that call settles, the terminal record holds its result and is bound to
\* P.
C29_PassedProducerIsCalled ==
    [][/\ \A k \in Keys, f \in Producers, eager \in BOOLEAN :
             (StartStep(k) /\ fetchData(k, f, eager)) =>
                 /\ inflight'[[key |-> k, fn |-> f]] = inflight[[key |-> k, fn |-> f]] + 1
                 /\ \A c \in Calls : (c.key # k \/ c.fn # f) => inflight'[c] = inflight[c]
       /\ \A c \in Calls, d \in Data :
             (lastOp'.op = "resolve" /\ lastOp'.key = c.key /\ lastOp'.val = d /\ resolve(c, d)) =>
                 LET r == Latest'[c.key]
                 IN  r.status = "success" /\ r.data = d /\ r.refetch = c.fn
       /\ \A c \in Calls, e \in Errors :
             (lastOp'.op = "reject" /\ lastOp'.key = c.key /\ lastOp'.val = e /\ reject(c, e)) =>
                 LET r == Latest'[c.key]
                 IN  r.status = "error" /\ r.error = e /\ r.refetch = c.fn]_vars

\* An invoke with a producer other than the one the record of k is bound to
\* went past the in-flight check and called the producer it was passed.
C29_Witness ==
    \E k \in Keys, f, g \in Producers :
        /\ f # g
        /\ lastOp.op = "fetchData" /\ lastOp.key = k /\ ~lastOp.dedup
        /\ Latest[k].status \in {"success", "error"} /\ Latest[k].refetch = f
        /\ inflight[[key |-> k, fn |-> g]] = 1
        /\ inflight[[key |-> k, fn |-> f]] = 0

\* C30: one adapter mounted on a key without a record triggers exactly one
\* producer call.  An explicit refetch needs a rendered record, so a
\* fetchData call made while nothing is rendered for the key is the
\* adapter's: it starts a producer call only when none was made before, and
\* the effect re-run after a render (loading, cached success, terminal)
\* starts none.
C30_OneCallPerMount ==
    [][/\ (StartStep(BoundKey) /\ queryStore[BoundKey] = Undef) => calls = 0
       /\ (lastOp.op = "render" /\ EffectsDue) => calls' = calls]_vars

\* C32: in every reachable state and for every key, a record with status
\* loading has isFetching = true, in the store the next render commits, in
\* the rendered store and in the store queryStoreRef.current holds: no
\* updater of the engine produces loading with isFetching = false.
C32_LoadingImpliesFetching ==
    \A k \in Keys : \A r \in Records(k) : r.status = "loading" => r.isFetching

\* A record created by the loading step has been rendered and its producer
\* call is outstanding.
C32_Witness ==
    \E k \in Keys :
        /\ Committed[k].status = "loading" /\ Committed[k].isFetching
        /\ Latest[k].status = "loading"
        /\ Outstanding(k) > 0

C33_NoCacheSameAsCacheless ==
    [][/\ \A k \in Keys, f \in Producers, eager \in BOOLEAN :
             InvokeStep(k) => (fetchData(k, f, eager) <=> fetchDataNoCache(k, f, eager))
       /\ \A k \in Keys, eager \in BOOLEAN :
             InvokeStep(k) => (refetch(k, eager) <=> refetchNoCache(k, eager))
       /\ \A c \in Calls, d \in Data :
             (lastOp'.op = "resolve" /\ lastOp'.key = c.key /\ lastOp'.val = d) =>
                 (resolve(c, d) <=> resolveNoCache(c, d))
       /\ \A c \in Calls, e \in Errors :
             (lastOp'.op = "reject" /\ lastOp'.key = c.key /\ lastOp'.val = e) =>
                 (reject(c, e) <=> rejectNoCache(c, e))
       /\ lastOp'.op \in {"fetchData", "resolve", "reject"} =>
             \/ \E k \in Keys, f \in Producers, eager \in BOOLEAN :
                   fetchData(k, f, eager) /\ fetchDataNoCache(k, f, eager)
             \/ \E c \in Calls, d \in Data : resolve(c, d) /\ resolveNoCache(c, d)
             \/ \E c \in Calls, e \in Errors : reject(c, e) /\ rejectNoCache(c, e)]_vars

\* Without a cache, a key was fetched, rendered in success, fetched again
\* and the second call has resolved.
C33_Witness ==
    /\ ~hasCache /\ calls = 2 /\ lastOp.op = "resolve"
    /\ \E k \in Keys :
          /\ Committed[k].status = "success"
          /\ Latest[k].status = "success" /\ ~Latest[k].isFetching
          /\ cache[k] = Undef

\* C31: InMemoryCache is a map.  After set(k, v), get(k) returns v; after
\* delete(k), get(k) returns undefined; get changes nothing and returns the
\* entry, undefined for a key the Map does not hold, as for every key of a
\* new cache; set and delete of k leave the entry of every other key as it
\* was; a second set(k, v) or delete(k) changes nothing more.
C31_InMemoryCacheIsAMap ==
    [][/\ \A k \in Keys : cacheGet(EmptyCache, k) = Undef
       /\ \A k \in Keys :
             /\ (lastOp'.op = "set" /\ lastOp'.key = k) =>
                    /\ cacheGet(cache', k) = lastOp'.val
                    /\ \A j \in Keys \ {k} : cacheGet(cache', j) = cacheGet(cache, j)
                    /\ cacheSet(cache', k, lastOp'.val) = cache'
             /\ (lastOp'.op = "delete" /\ lastOp'.key = k) =>
                    /\ cacheGet(cache', k) = Undef
                    /\ \A j \in Keys \ {k} : cacheGet(cache', j) = cacheGet(cache, j)
                    /\ cacheDelete(cache', k) = cache'
             /\ (lastOp'.op = "get" /\ lastOp'.key = k) =>
                    /\ cache' = cache
                    /\ lastOp'.val = cache[k]
                    /\ ~lastOp'.hit => lastOp'.val = Undef]_vars

\* An entry the cache held was deleted while another key keeps its value.
C31_Witness ==
    /\ lastOp.op = "delete" /\ lastOp.hit
    /\ cacheGet(cache, lastOp.key) = Undef
    /\ \E j \in Keys \ {lastOp.key} : cacheGet(cache, j) \in CacheValues

====
